---- MODULE Spec2Model ----
(***************************************************************************)
(* Model of the UserEdge2 admin console: the PostgresConnector repository  *)
(* (db_connector_pg.py) over the tables users, edges and user_edge_link,   *)
(* and the add/edit dialogs of the Users and Edges pages that call it.     *)
(*                                                                         *)
(* SQL NULL and Python None are modelled by 0; ids and timestamps are      *)
(* positive naturals.  Text is a sequence of one-character strings.        *)
(***************************************************************************)
EXTENDS Naturals, Sequences, FiniteSets, TLC

\* ------------------------------------------------------------------ bounds
MaxUsers == 2
MaxEdges == 2
\* link rows one edge can have at a time
MaxRows == 2

NULL == 0
None == 0

UserIds == 1..MaxUsers
EdgeIds == 1..MaxEdges
RowIds == 1..MaxRows

\* ------------------------------------------------------------------ text
\* Input texts of the dialogs and of the repository calls.
InputTexts == { <<>>, <<" ">>, <<"a">>, <<" ", "a", " ">>, <<"b", " ">> }
Passwords == { <<>>, <<"p">> }
RoleLists == { <<>>, <<"admin">> }
Salts == {1, 2}

IsSpace(c) == c = " "

RECURSIVE lstrip(_)
lstrip(s) == IF s # <<>> /\ IsSpace(Head(s)) THEN lstrip(Tail(s)) ELSE s

RECURSIVE rstrip(_)
rstrip(s) ==
    IF s # <<>> /\ IsSpace(s[Len(s)]) THEN rstrip(SubSeq(s, 1, Len(s) - 1)) ELSE s

\* str.strip(): surrounding whitespace removed.
strip(s) == rstrip(lstrip(s))

\* None where a text is expected (Optional[str]).
NoneText == << "None" >>

\* Python truthiness of an Optional[str] ("" and None are falsy) and of an
\* optional id.
Truthy(s) == s # <<>> /\ s # NoneText
TruthyId(v) == v # None

\* bcrypt.hashpw(password, gensalt()): salted and self-describing.
hashpw(password, salt) == [alg |-> "bcrypt", salt |-> salt, of |-> password]

\* ------------------------------------------------------------------ state
VARIABLES
    users,      \* public.users: id -> row
    edges,      \* public.edges: id -> row
    links,      \* public.user_edge_link: set of rows [rid, user_id, edge_id]; the
                \* table has no key: rid tells the rows of one edge apart
    userSeq,    \* number of user ids generated so far
    edgeSeq,    \* number of edge ids generated so far
    now,        \* the clock read by datetime.now
    last,       \* the last repository call and how it ended
    lastSet,    \* history: per edge, the owner passed by the last successful
                \* set_edge_owner_id (NoCall before the first)
    tx,         \* per concurrent caller, its open set_edge_owner_id transaction
    ui,         \* the admin page of one browser session: tables, selection, dialog
    conns,      \* number of store connections that are open
    ret         \* what the last read call returned

vars == <<users, edges, links, userSeq, edgeSeq, now, last, lastSet, tx, ui, conns, ret>>

NoCall == MaxUsers + 1

\* had: how many rows the call found that it was to replace, remove or restore
Call(op, uid, eid, status, had) ==
    [op |-> op, uid |-> uid, eid |-> eid, status |-> status, had |-> had]

\* Two callers whose set_edge_owner_id calls overlap.
Callers == {1, 2}
NoTx == [pc |-> "idle", edge_id |-> None, owner_user_id |-> None,
         snap |-> {}, del |-> {}, ins |-> {}]

\* The page before it is loaded: empty tables, nothing selected, no dialog.
NoRow == [id |-> ""]
NoDialog == [kind |-> "none", sel |-> "", owner |-> "", deleted |-> FALSE]
NoPage == [view |-> "users", users_rows |-> {}, users_selected |-> NoRow,
           edges_rows |-> {}, edges_selected |-> NoRow,
           owner_options |-> {}, dialog |-> NoDialog, notify |-> "", error |-> "none"]

\* ------------------------------------------------------------------ schema
\* Rows of the link table of one edge, of one user.
LinksOfEdge(L, e) == { r \in L : r.edge_id = e }
LinksOfUser(L, u) == { r \in L : r.user_id = u }

\* Foreign keys of user_edge_link: a row must reference existing parents.
FkViolation(U, E, u, e) == u \notin DOMAIN U \/ e \notin DOMAIN E

\* ON DELETE CASCADE from users and from edges.
CascadeUser(L, u) == L \ LinksOfUser(L, u)
CascadeEdge(L, e) == L \ LinksOfEdge(L, e)

\* The place of a new link row of edge e: the first one no row of e has and
\* no open transaction still refers to (avoid).
FreeRids(L, e, avoid) == RowIds \ ({ r.rid : r \in LinksOfEdge(L, e) } \cup avoid)
FreeRid(L, e, avoid) ==
    CHOOSE i \in FreeRids(L, e, avoid) : \A j \in FreeRids(L, e, avoid) : i <= j

\* psycopg's "with connect() as conn": the block's work is committed on a normal
\* exit and rolled back when an exception leaves the block.
ConnExit_Autocommit(committed, working, raised) == working
ConnExit(committed, working, raised) == IF raised THEN committed ELSE working

Restrict(f, S) == [x \in S |-> f[x]]

\* get_conn opens a connection; leaving the with block closes it, after the
\* commit and after the rollback alike.
get_conn(held) == held + 1
ConnRelease_KeptOnError(held, raised) == IF raised THEN held ELSE held - 1
ConnRelease(held, raised) == held - 1
\* with self.get_conn() as conn: ... as one step
WithConn(held, raised) == ConnRelease(get_conn(held), raised)

\* Nothing returned yet.
NoRet == [op |-> "none"]

\* ------------------------------------------------------------------ users
get_all_users == { [id |-> u] @@ users[u] : u \in DOMAIN users }

create_user(username, password, roles, salt, fault) ==
    LET id == userSeq + 1
        pw_hash == hashpw(password, salt)
        row == [username |-> strip(username), password_hash |-> pw_hash,
                roles |-> roles, updated_at |-> now, deleted_at |-> NULL]
        working == users @@ (id :> row)
    IN  /\ userSeq < MaxUsers
        /\ users' = ConnExit(users, working, fault)
        /\ userSeq' = ConnExit(userSeq, id, fault)
        /\ last' = IF fault THEN Call("create_user", None, None, "OperationalError", 0)
                            ELSE Call("create_user", id, None, "ok", 0)
        /\ conns' = WithConn(conns, fault)
        /\ UNCHANGED <<edges, links, edgeSeq, now>>

update_user_EmptyPasswordHashed(user_id, username, roles, new_password, salt, fault) ==
    LET working ==
            IF user_id \notin DOMAIN users THEN users
            ELSE IF new_password # NoneText
            THEN [users EXCEPT ![user_id].username = strip(username),
                               ![user_id].roles = roles,
                               ![user_id].password_hash = hashpw(new_password, salt)]
            ELSE [users EXCEPT ![user_id].username = strip(username),
                               ![user_id].roles = roles]
    IN  /\ users' = ConnExit(users, working, fault)
        /\ last' = Call("update_user", user_id, None,
                        IF fault THEN "OperationalError" ELSE "ok", 0)
        /\ conns' = WithConn(conns, fault)
        /\ UNCHANGED <<edges, links, userSeq, edgeSeq, now>>

update_user(user_id, username, roles, new_password, salt, fault) ==
    LET working ==
            IF user_id \notin DOMAIN users THEN users
            ELSE IF Truthy(new_password)
            THEN [users EXCEPT ![user_id].username = strip(username),
                               ![user_id].roles = roles,
                               ![user_id].password_hash = hashpw(new_password, salt)]
            ELSE [users EXCEPT ![user_id].username = strip(username),
                               ![user_id].roles = roles]
    IN  /\ users' = ConnExit(users, working, fault)
        /\ last' = Call("update_user", user_id, None,
                        IF fault THEN "OperationalError" ELSE "ok", 0)
        /\ conns' = WithConn(conns, fault)
        /\ UNCHANGED <<edges, links, userSeq, edgeSeq, now>>

soft_delete_user_AlwaysStamps(user_id, delete, fault) ==
    LET working == IF user_id \notin DOMAIN users THEN users
                   ELSE [users EXCEPT ![user_id].deleted_at = now]
    IN  /\ users' = ConnExit(users, working, fault)
        /\ last' = Call(IF delete THEN "soft_delete_user" ELSE "undelete_user",
                        user_id, None, IF fault THEN "OperationalError" ELSE "ok",
                        IF user_id \in DOMAIN users /\ users[user_id].deleted_at # NULL
                        THEN 1 ELSE 0)
        /\ conns' = WithConn(conns, fault)
        /\ UNCHANGED <<edges, links, userSeq, edgeSeq, now>>

soft_delete_user_Unlinks(user_id, delete, fault) ==
    LET deleted_at == IF delete THEN now ELSE NULL
        working == IF user_id \notin DOMAIN users THEN users
                   ELSE [users EXCEPT ![user_id].deleted_at = deleted_at]
    IN  /\ users' = ConnExit(users, working, fault)
        /\ links' = ConnExit(links, IF delete THEN CascadeUser(links, user_id) ELSE links, fault)
        /\ last' = Call(IF delete THEN "soft_delete_user" ELSE "undelete_user",
                        user_id, None, IF fault THEN "OperationalError" ELSE "ok",
                        IF user_id \in DOMAIN users /\ users[user_id].deleted_at # NULL
                        THEN 1 ELSE 0)
        /\ conns' = WithConn(conns, fault)
        /\ UNCHANGED <<edges, userSeq, edgeSeq, now>>

soft_delete_user(user_id, delete, fault) ==
    LET deleted_at == IF delete THEN now ELSE NULL
        working == IF user_id \notin DOMAIN users THEN users
                   ELSE [users EXCEPT ![user_id].deleted_at = deleted_at]
    IN  /\ users' = ConnExit(users, working, fault)
        /\ last' = Call(IF delete THEN "soft_delete_user" ELSE "undelete_user",
                        user_id, None, IF fault THEN "OperationalError" ELSE "ok",
                        IF user_id \in DOMAIN users /\ users[user_id].deleted_at # NULL
                        THEN 1 ELSE 0)
        /\ conns' = WithConn(conns, fault)
        /\ UNCHANGED <<edges, links, userSeq, edgeSeq, now>>

hard_delete_user_WithEdges(user_id, fault) ==
    LET owned == { r.edge_id : r \in LinksOfUser(links, user_id) }
    IN  /\ users' = ConnExit(users, Restrict(users, DOMAIN users \ {user_id}), fault)
        /\ links' = ConnExit(links, CascadeUser(links, user_id), fault)
        /\ edges' = ConnExit(edges, Restrict(edges, DOMAIN edges \ owned), fault)
        /\ last' = Call("hard_delete_user", user_id, None,
                        IF fault THEN "OperationalError" ELSE "ok",
                        Cardinality(LinksOfUser(links, user_id)))
        /\ conns' = WithConn(conns, fault)
        /\ UNCHANGED <<userSeq, edgeSeq, now>>

hard_delete_user(user_id, fault) ==
    /\ users' = ConnExit(users, Restrict(users, DOMAIN users \ {user_id}), fault)
    /\ links' = ConnExit(links, CascadeUser(links, user_id), fault)
    /\ last' = Call("hard_delete_user", user_id, None,
                    IF fault THEN "OperationalError" ELSE "ok",
                    Cardinality(LinksOfUser(links, user_id)))
    /\ conns' = WithConn(conns, fault)
    /\ UNCHANGED <<edges, userSeq, edgeSeq, now>>

\* ------------------------------------------------------------------ edges
\* The edges table after create_edge, whose new row gets the id rid.
EdgesAfterCreate(E, rid, serial_number, type_, fault) ==
    LET row == [serial_number |-> strip(serial_number), type |-> strip(type_)]
    IN  ConnExit(E, E @@ (rid :> row), fault)

create_edge_Linked(serial_number, type_, fault) ==
    LET rid == edgeSeq + 1
    IN  /\ edgeSeq < MaxEdges
        /\ edges' = EdgesAfterCreate(edges, rid, serial_number, type_, fault)
        /\ edgeSeq' = ConnExit(edgeSeq, rid, fault)
        /\ last' = IF fault THEN Call("create_edge", None, None, "OperationalError", 0)
                            ELSE Call("create_edge", None, rid, "ok", 0)
        /\ conns' = WithConn(conns, fault)
        /\ links' = IF fault \/ users = <<>> THEN links
                    ELSE links \cup { [rid |-> 1, edge_id |-> rid,
                                       user_id |-> CHOOSE u \in DOMAIN users : TRUE] }
        /\ UNCHANGED <<users, userSeq, now>>

create_edge(serial_number, type_, fault) ==
    LET rid == edgeSeq + 1
    IN  /\ edgeSeq < MaxEdges
        /\ edges' = EdgesAfterCreate(edges, rid, serial_number, type_, fault)
        /\ edgeSeq' = ConnExit(edgeSeq, rid, fault)
        /\ last' = IF fault THEN Call("create_edge", None, None, "OperationalError", 0)
                            ELSE Call("create_edge", None, rid, "ok", 0)
        /\ conns' = WithConn(conns, fault)
        /\ UNCHANGED <<users, links, userSeq, now>>

\* The edges table after update_edge.
EdgesAfterUpdate(E, edge_id, serial_number, type_, fault) ==
    LET working == IF edge_id \notin DOMAIN E THEN E
                   ELSE [E EXCEPT ![edge_id].serial_number = strip(serial_number),
                                  ![edge_id].type = strip(type_)]
    IN  ConnExit(E, working, fault)

update_edge(edge_id, serial_number, type_, fault) ==
    /\ edges' = EdgesAfterUpdate(edges, edge_id, serial_number, type_, fault)
    /\ last' = Call("update_edge", None, edge_id,
                    IF fault THEN "OperationalError" ELSE "ok", 0)
    /\ conns' = WithConn(conns, fault)
    /\ UNCHANGED <<users, links, userSeq, edgeSeq, now>>

hard_delete_edge(edge_id, fault) ==
    /\ edges' = ConnExit(edges, Restrict(edges, DOMAIN edges \ {edge_id}), fault)
    /\ links' = ConnExit(links, CascadeEdge(links, edge_id), fault)
    /\ last' = Call("hard_delete_edge", None, edge_id,
                    IF fault THEN "OperationalError" ELSE "ok",
                    Cardinality(LinksOfEdge(links, edge_id)))
    /\ conns' = WithConn(conns, fault)
    /\ UNCHANGED <<users, userSeq, edgeSeq, now>>

\* ------------------------------------------------------------------ links
\* The two statements of set_edge_owner_id.
DeleteLinksOfEdge_Skipped(L, edge_id) == L
DeleteLinksOfEdge_OneRow(L, edge_id) ==
    IF LinksOfEdge(L, edge_id) = {} THEN L
    ELSE L \ { CHOOSE r \in LinksOfEdge(L, edge_id) : TRUE }
DeleteLinksOfEdge_AllEdges(L, edge_id) == {}
DeleteLinksOfEdge(L, edge_id) == L \ LinksOfEdge(L, edge_id)
InsertLink(L, user_id, edge_id, avoid) ==
    L \cup { [rid |-> FreeRid(L, edge_id, avoid), user_id |-> user_id,
              edge_id |-> edge_id] }

\* SELECT user_id ... WHERE edge_id = %s LIMIT 1: the values the call can
\* return (any one row when there are several).
get_edge_owner_id_NoFilter(edge_id) ==
    IF links = {} THEN {None} ELSE { r.user_id : r \in links }

get_edge_owner_id(edge_id) ==
    IF LinksOfEdge(links, edge_id) = {} THEN {None}
    ELSE { r.user_id : r \in LinksOfEdge(links, edge_id) }

\* failAt: where the connection fails, if anywhere ("none", "delete", "insert",
\* "commit"). The INSERT is rejected when a foreign key is violated.
SetOwnerRejected(U, E, edge_id, owner_user_id, failAt) ==
    /\ TruthyId(owner_user_id)
    /\ failAt # "delete"
    /\ FkViolation(U, E, owner_user_id, edge_id)

SetOwnerRaised(U, E, edge_id, owner_user_id, failAt) ==
    failAt # "none" \/ SetOwnerRejected(U, E, edge_id, owner_user_id, failAt)

SetOwnerStatus(U, E, edge_id, owner_user_id, failAt) ==
    IF failAt = "delete" THEN "OperationalError"
    ELSE IF SetOwnerRejected(U, E, edge_id, owner_user_id, failAt)
    THEN "ForeignKeyViolation"
    ELSE IF failAt # "none" THEN "OperationalError"
    ELSE "ok"

\* The link table after set_edge_owner_id on the tables L, U, E.
SetOwnerLinks(L, U, E, edge_id, owner_user_id, failAt) ==
    LET afterDelete == DeleteLinksOfEdge(L, edge_id)
        \* the connection's work when the block is left
        working == IF failAt = "delete" THEN L
                   ELSE IF /\ TruthyId(owner_user_id)
                           /\ failAt # "insert"
                           /\ ~SetOwnerRejected(U, E, edge_id, owner_user_id, failAt)
                   THEN InsertLink(afterDelete, owner_user_id, edge_id, {})
                   ELSE afterDelete
    IN  ConnExit(L, working, SetOwnerRaised(U, E, edge_id, owner_user_id, failAt))

set_edge_owner_id(edge_id, owner_user_id, failAt) ==
    /\ failAt = "insert" => TruthyId(owner_user_id)
    /\ links' = SetOwnerLinks(links, users, edges, edge_id, owner_user_id, failAt)
    /\ last' = Call("set_edge_owner_id", owner_user_id, edge_id,
                    SetOwnerStatus(users, edges, edge_id, owner_user_id, failAt),
                    Cardinality(LinksOfEdge(links, edge_id)))
    /\ conns' = WithConn(conns, SetOwnerRaised(users, edges, edge_id, owner_user_id, failAt))
    /\ UNCHANGED <<users, edges, userSeq, edgeSeq, now>>

\* users u LEFT JOIN user_edge_link l ON l.user_id = u.id: one joined row per
\* matching link, and one with a NULL link for a user that has none.
JoinedRow(u, r) == [u_id |-> u, l_rid |-> r.rid, l_edge_id |-> r.edge_id]
Unmatched(u) == [u_id |-> u, l_rid |-> NULL, l_edge_id |-> NULL]

UsersLeftJoinLinks ==
    LET matched == { p \in (DOMAIN users) \X links : p[2].user_id = p[1] }
        lonely == { u \in DOMAIN users : \A r \in links : r.user_id # u }
    IN  { JoinedRow(p[1], p[2]) : p \in matched } \cup { Unmatched(u) : u \in lonely }

UsersJoinLinks == { j \in UsersLeftJoinLinks : j.l_edge_id # NULL }

\* SELECT u.id::text AS user_id, COUNT(l.edge_id)::int AS device_count
\* ... GROUP BY u.id, then the dict built from the rows.
DeviceCountsOf(joined) ==
    [k \in { ToString(j.u_id) : j \in joined } |->
        Cardinality({ j \in joined : ToString(j.u_id) = k /\ j.l_edge_id # NULL })]

get_user_device_counts_InnerJoin == DeviceCountsOf(UsersJoinLinks)
get_user_device_counts == DeviceCountsOf(UsersLeftJoinLinks)

\* ------------------------------------------------------------------ Spec
\* The repository called by one caller at a time, from an empty store.
Init ==
    /\ users = <<>>
    /\ edges = <<>>
    /\ links = {}
    /\ userSeq = 0
    /\ edgeSeq = 0
    /\ now = 1
    /\ last = Call("none", None, None, "ok", 0)
    /\ lastSet = [e \in EdgeIds |-> NoCall]
    /\ tx = [t \in Callers |-> NoTx]
    /\ ui = NoPage
    /\ conns = 0
    /\ ret = NoRet

FailPoints == {"none", "delete", "insert", "commit"}

\* Inputs of the ownership-centred specification: one name, one credential.
SpecTexts == { <<" ", "a", " ">> }
SpecPasswords == { <<"p">> }
SpecRoles == { <<"admin">> }
SpecSalts == {1}

CreateUser ==
    /\ \E n \in SpecTexts, p \in SpecPasswords, r \in SpecRoles, s \in SpecSalts :
            create_user(n, p, r, s, FALSE)
    /\ UNCHANGED <<lastSet, tx, ui, ret>>
UpdateUser ==
    /\ \E u \in UserIds, n \in SpecTexts, r \in SpecRoles,
          p \in SpecPasswords \cup {NoneText}, s \in SpecSalts :
            update_user(u, n, r, p, s, FALSE)
    /\ UNCHANGED <<lastSet, tx, ui, ret>>
SoftDeleteUser ==
    /\ \E u \in UserIds, d \in BOOLEAN : soft_delete_user(u, d, FALSE)
    /\ UNCHANGED <<lastSet, tx, ui, ret>>
HardDeleteUser ==
    /\ \E u \in UserIds : hard_delete_user(u, FALSE)
    /\ UNCHANGED <<lastSet, tx, ui, ret>>
CreateEdge ==
    /\ \E sn \in SpecTexts, t \in SpecTexts : create_edge(sn, t, FALSE)
    /\ UNCHANGED <<lastSet, tx, ui, ret>>
UpdateEdge ==
    /\ \E e \in EdgeIds, sn \in SpecTexts, t \in SpecTexts : update_edge(e, sn, t, FALSE)
    /\ UNCHANGED <<lastSet, tx, ui, ret>>
HardDeleteEdge ==
    /\ \E e \in EdgeIds : hard_delete_edge(e, FALSE)
    /\ UNCHANGED <<lastSet, tx, ui, ret>>
SetEdgeOwner ==
    /\ \E e \in EdgeIds, o \in UserIds \cup {None}, f \in FailPoints :
            set_edge_owner_id(e, o, f)
    /\ UNCHANGED <<lastSet, tx, ui, ret>>

Next ==
    \/ CreateUser
    \/ UpdateUser
    \/ SoftDeleteUser
    \/ HardDeleteUser
    \/ CreateEdge
    \/ UpdateEdge
    \/ HardDeleteEdge
    \/ SetEdgeOwner

Spec == Init /\ [][Next]_vars

\* ------------------------------------------------------------------ C1
RowsOfEdge(e) == Cardinality(LinksOfEdge(links, e))

\* C1: single owner. In every state reached from the empty store by completed
\* repository calls made one at a time, every edge id has at most one row in
\* user_edge_link.
C1_SingleOwner == \A e \in EdgeIds : RowsOfEdge(e) <= 1

\* An owned edge has just been given to another existing account while a second
\* edge is owned too.
C1_Witness ==
    /\ last = Call("set_edge_owner_id", 2, 1, "ok", 1)
    /\ { r.user_id : r \in LinksOfEdge(links, 1) } = {2}
    /\ LinksOfEdge(links, 2) # {}

\* ------------------------------------------------------------------ SpecSetOwner
\* Only set_edge_owner_id is called, on a store that already holds accounts and
\* edges and no link; lastSet records the owner of each successful call.
StoredUser == [username |-> <<"a">>, password_hash |-> hashpw(<<"p">>, 1),
               roles |-> <<"admin">>, updated_at |-> 1, deleted_at |-> NULL]
StoredEdge == [serial_number |-> <<"a">>, type |-> <<"a">>]

InitSetOwner ==
    /\ userSeq \in 0..MaxUsers
    /\ edgeSeq \in 0..MaxEdges
    /\ users \in { [u \in S |-> StoredUser] : S \in SUBSET (1..userSeq) }
    /\ edges \in { [e \in S |-> StoredEdge] : S \in SUBSET (1..edgeSeq) }
    /\ links = {}
    /\ now = 1
    /\ last = Call("none", None, None, "ok", 0)
    /\ lastSet = [e \in EdgeIds |-> NoCall]
    /\ tx = [t \in Callers |-> NoTx]
    /\ ui = NoPage
    /\ conns = 0
    /\ ret = NoRet

SetEdgeOwnerLogged ==
    \E e \in EdgeIds, o \in UserIds \cup {None}, f \in FailPoints :
        /\ set_edge_owner_id(e, o, f)
        /\ lastSet' = IF last'.status = "ok" THEN [lastSet EXCEPT ![e] = o] ELSE lastSet
        /\ UNCHANGED <<tx, ui, ret>>

NextSetOwner == SetEdgeOwnerLogged

SpecSetOwner == InitSetOwner /\ [][NextSetOwner]_vars

\* C3: last writer wins. After any sequence of set_edge_owner_id calls,
\* get_edge_owner_id(E) returns exactly the account passed by the most recent
\* successful set_edge_owner_id(E, .), and None if that call passed None or no
\* call for E succeeded.
C3_LastWriterWins ==
    \A e \in EdgeIds :
        get_edge_owner_id(e) = { IF lastSet[e] = NoCall THEN None ELSE lastSet[e] }

\* Edge 1 went to account 2 and edge 2, which had an owner, has just been
\* cleared.
C3_Witness ==
    /\ lastSet = (1 :> 2 @@ 2 :> None)
    /\ last = Call("set_edge_owner_id", None, 2, "ok", 1)
    /\ get_edge_owner_id(1) = {2}

\* ------------------------------------------------------------------ SpecConc
\* Two callers run set_edge_owner_id at the same time, each in its own
\* transaction, statement by statement, under READ COMMITTED (the server's
\* default: get_conn sets no isolation level). A statement sees the rows
\* committed when it starts; a DELETE waits for a row that another open
\* transaction has deleted and skips it once that transaction has committed.
Finished == {"idle", "committed", "failed"}
\* The edge the overlapping calls are about: rows of different edges never meet
\* in a statement of set_edge_owner_id.
ConcEdges == {1}
StoredUsers == { [u \in S |-> StoredUser] : S \in {UserIds, UserIds \ {MaxUsers}} }

InitConc ==
    /\ userSeq = MaxUsers
    /\ edgeSeq = MaxEdges
    /\ users \in StoredUsers
    /\ edges = [e \in EdgeIds |-> StoredEdge]
    /\ links = {}
    /\ now = 1
    /\ last = Call("none", None, None, "ok", 0)
    /\ lastSet = [e \in EdgeIds |-> NoCall]
    /\ tx = [t \in Callers |-> NoTx]
    /\ ui = NoPage
    /\ conns = 0
    /\ ret = NoRet

concFrame == UNCHANGED <<users, edges, userSeq, edgeSeq, now, lastSet, ui, ret>>
Overlapped == last' = Call("none", None, None, "ok", 0)

\* Places of rows of edge e that some open transaction still refers to.
RidsInUse(e) ==
    { r.rid : r \in UNION { { x \in tx[t].snap \cup tx[t].del \cup tx[t].ins : x.edge_id = e }
                            : t \in Callers } }

\* line 216: the call opens its connection.
TxBegin(t) ==
    \E e \in ConcEdges, o \in UserIds \cup {None} :
        /\ tx[t].pc \in Finished
        /\ tx' = [tx EXCEPT ![t] = [NoTx EXCEPT !.pc = "delete", !.edge_id = e,
                                                !.owner_user_id = o]]
        /\ conns' = get_conn(conns)
        /\ Overlapped
        /\ UNCHANGED links
        /\ concFrame

\* line 218: the DELETE starts and takes its snapshot of the committed rows.
TxDeleteStart(t) ==
    /\ tx[t].pc = "delete"
    /\ tx' = [tx EXCEPT ![t].pc = "deleting",
                        ![t].snap = LinksOfEdge(links, tx[t].edge_id)]
    /\ Overlapped
    /\ UNCHANGED <<links, conns>>
    /\ concFrame

\* The rows of its snapshot that a waiting DELETE still finds.
Visible(t) == tx[t].snap \cap links

TxDeleteFinish_Committed(t) ==
    /\ tx[t].pc = "deleting"
    /\ \A o \in Callers \ {t} : tx[o].del \cap tx[t].snap = {}
    /\ tx' = [tx EXCEPT ![t].pc = IF TruthyId(tx[t].owner_user_id)
                                  THEN "insert" ELSE "commit",
                        ![t].del = {},
                        ![t].snap = {}]
    /\ links' = DeleteLinksOfEdge(links, tx[t].edge_id)
    /\ Overlapped
    /\ UNCHANGED conns
    /\ concFrame

\* line 218: the DELETE ends once no row of its snapshot is held by another
\* open transaction; it removes the rows of the snapshot that still exist.
TxDeleteFinish(t) ==
    /\ tx[t].pc = "deleting"
    /\ \A o \in Callers \ {t} : tx[o].del \cap tx[t].snap = {}
    /\ tx' = [tx EXCEPT ![t].pc = IF TruthyId(tx[t].owner_user_id)
                                  THEN "insert" ELSE "commit",
                        ![t].del = Visible(t) \ DeleteLinksOfEdge(Visible(t), tx[t].edge_id),
                        ![t].snap = {}]
    /\ Overlapped
    /\ UNCHANGED <<links, conns>>
    /\ concFrame

TxInsert_Unchecked(t) ==
    LET e == tx[t].edge_id
        o == tx[t].owner_user_id
        row == [rid |-> FreeRid(links, e, RidsInUse(e)), user_id |-> o, edge_id |-> e]
    IN  /\ tx[t].pc = "insert"
        /\ FreeRids(links, e, RidsInUse(e)) # {}
        /\ tx' = [tx EXCEPT ![t].pc = "commit", ![t].ins = {row}]
        /\ UNCHANGED conns
        /\ Overlapped
        /\ UNCHANGED links
        /\ concFrame

\* lines 220-224: the INSERT; a foreign key violation raises and the block
\* rolls back.
TxInsert(t) ==
    LET e == tx[t].edge_id
        o == tx[t].owner_user_id
        row == [rid |-> FreeRid(links, e, RidsInUse(e)), user_id |-> o, edge_id |-> e]
    IN  /\ tx[t].pc = "insert"
        /\ IF FkViolation(users, edges, o, e)
           THEN /\ tx' = [tx EXCEPT ![t] = [NoTx EXCEPT !.pc = "failed"]]
                /\ conns' = ConnRelease(conns, TRUE)
           ELSE /\ FreeRids(links, e, RidsInUse(e)) # {}
                /\ tx' = [tx EXCEPT ![t].pc = "commit", ![t].ins = {row}]
                /\ UNCHANGED conns
        /\ Overlapped
        /\ UNCHANGED links
        /\ concFrame

\* leaving the with block normally: commit.
TxCommit(t) ==
    /\ tx[t].pc = "commit"
    /\ links' = ConnExit(links, (links \ tx[t].del) \cup tx[t].ins, FALSE)
    /\ tx' = [tx EXCEPT ![t] = [NoTx EXCEPT !.pc = "committed",
                                            !.edge_id = tx[t].edge_id]]
    /\ conns' = ConnRelease(conns, FALSE)
    /\ Overlapped
    /\ concFrame

\* the connection fails at a statement or at the commit: rollback.
TxFail(t) ==
    /\ tx[t].pc \in {"delete", "deleting", "insert", "commit"}
    /\ links' = ConnExit(links, (links \ tx[t].del) \cup tx[t].ins, TRUE)
    /\ tx' = [tx EXCEPT ![t] = [NoTx EXCEPT !.pc = "failed"]]
    /\ conns' = ConnRelease(conns, TRUE)
    /\ Overlapped
    /\ concFrame

\* A call made while no other call is open.
SoloSetEdgeOwner ==
    /\ \A t \in Callers : tx[t].pc \in Finished
    /\ \E e \in ConcEdges, o \in UserIds \cup {None}, f \in FailPoints :
            set_edge_owner_id(e, o, f)
    /\ UNCHANGED <<lastSet, tx, ui, ret>>

NextConc ==
    \/ \E t \in Callers : TxBegin(t)
    \/ \E t \in Callers : TxDeleteStart(t)
    \/ \E t \in Callers : TxDeleteFinish(t)
    \/ \E t \in Callers : TxInsert(t)
    \/ \E t \in Callers : TxCommit(t)
    \/ \E t \in Callers : TxFail(t)
    \/ SoloSetEdgeOwner

SpecConc == InitConc /\ [][NextConc]_vars

\* ------------------------------------------------------------------ C2
\* C2: concurrent set_edge_owner_id calls cannot produce two links. When both
\* callers have committed a set_edge_owner_id on the same edge, that edge has
\* at most one link row.
C2_NoTwoLinksAfterBothCommit ==
    \A e \in EdgeIds :
        (\A t \in Callers : tx[t].pc = "committed" /\ tx[t].edge_id = e)
            => RowsOfEdge(e) <= 1

\* ------------------------------------------------------------------ C5
OwnersOfEdge(L, e) == { r.user_id : r \in LinksOfEdge(L, e) }

\* C5: replace postcondition. Whatever number of link rows edge E has before, a
\* successful set_edge_owner_id(E, B) made while no other call is open leaves
\* exactly one link row for E, the row (B, E), when B is not None, and no link
\* row for E when B is None.
C5_Replace ==
    [][\A e \in EdgeIds, o \in UserIds \cup {None} :
        (set_edge_owner_id(e, o, "none") /\ last'.status = "ok")
        => IF TruthyId(o)
           THEN /\ Cardinality(LinksOfEdge(links', e)) = 1
                /\ OwnersOfEdge(links', e) = {o}
                /\ o \in DOMAIN users
           ELSE LinksOfEdge(links', e) = {}]_vars

\* Edge 1 had two link rows and has just been given to account 2.
C5_Witness ==
    /\ last = Call("set_edge_owner_id", 2, 1, "ok", 2)
    /\ Cardinality(LinksOfEdge(links, 1)) = 1
    /\ OwnersOfEdge(links, 1) = {2}

\* ------------------------------------------------------------------ SpecFields
\* The create and update calls of the repository with every input text, from
\* an empty store.
FieldsCreateUser ==
    /\ \E n \in InputTexts, p \in Passwords, r \in SpecRoles, s \in SpecSalts :
            create_user(n, p, r, s, FALSE)
    /\ UNCHANGED <<lastSet, tx, ui, ret>>
FieldsUpdateUser ==
    /\ \E u \in UserIds, n \in InputTexts, r \in SpecRoles,
          p \in Passwords \cup {NoneText}, s \in SpecSalts :
            update_user(u, n, r, p, s, FALSE)
    /\ UNCHANGED <<lastSet, tx, ui, ret>>
FieldsCreateEdge ==
    /\ \E sn \in InputTexts, t \in InputTexts : create_edge(sn, t, FALSE)
    /\ UNCHANGED <<lastSet, tx, ui, ret>>
FieldsUpdateEdge ==
    /\ \E e \in EdgeIds, sn \in InputTexts, t \in InputTexts : update_edge(e, sn, t, FALSE)
    /\ UNCHANGED <<lastSet, tx, ui, ret>>

NextFields ==
    \/ FieldsCreateUser
    \/ FieldsUpdateUser
    \/ FieldsCreateEdge
    \/ FieldsUpdateEdge

SpecFields == Init /\ [][NextFields]_vars

\* ------------------------------------------------------------------ C9
\* C9: creation validates required fields after trimming. create_user with a
\* username that is empty after trimming, or with an empty password, fails with
\* ValidationError and inserts no account row; create_edge with a serial number
\* or a type that is empty after trimming fails with ValidationError and inserts
\* no edge row.
C9_CreationValidates ==
    [][ /\ \A n \in InputTexts, p \in Passwords, r \in SpecRoles, s \in SpecSalts :
            (create_user(n, p, r, s, FALSE) /\ (strip(n) = <<>> \/ p = <<>>))
                => (last'.status = "ValidationError" /\ users' = users)
        /\ \A sn \in InputTexts, t \in InputTexts :
            (create_edge(sn, t, FALSE) /\ (strip(sn) = <<>> \/ strip(t) = <<>>))
                => (last'.status = "ValidationError" /\ edges' = edges) ]_vars

\* ------------------------------------------------------------------ C4
\* C4: set_edge_owner_id is all or nothing. A call that fails after its DELETE
\* (the INSERT is rejected by a foreign key, or the connection fails at the
\* INSERT or at the commit) ends with an error and leaves the link rows of the
\* edge, and the whole link table, as they were before the call.
C4_AllOrNothing ==
    [][last'.op = "set_edge_owner_id" =>
        LET e == last'.eid
            o == last'.uid
        IN  \A f \in {"none", "insert", "commit"} :
                ( /\ set_edge_owner_id(e, o, f)
                  /\ f # "none" \/ (TruthyId(o) /\ FkViolation(users, edges, o, e)) )
                => /\ last'.status \in {"ForeignKeyViolation", "OperationalError"}
                   /\ LinksOfEdge(links', e) = LinksOfEdge(links, e)
                   /\ links' = links]_vars

\* A reassignment to an account that does not exist was rejected and the edge
\* still has its owner.
C4_Witness ==
    /\ last = Call("set_edge_owner_id", 2, 1, "ForeignKeyViolation", 1)
    /\ 2 \notin DOMAIN users
    /\ { r.user_id : r \in LinksOfEdge(links, 1) } = {1}

\* ------------------------------------------------------------------ C6
\* C6: get_user_device_counts has one key per existing account (soft-deleted
\* ones too, hard-deleted ones not), the account id as text, and its value is
\* the number of link rows of that account, 0 when it owns nothing.
C6_DeviceCounts ==
    /\ DOMAIN get_user_device_counts = { ToString(u) : u \in DOMAIN users }
    /\ \A u \in DOMAIN users :
        get_user_device_counts[ToString(u)] = Cardinality(LinksOfUser(links, u))

\* Account 1 owns both edges, account 2 none, and account 2 is soft-deleted.
C6_Witness ==
    /\ DOMAIN users = {1, 2}
    /\ users[2].deleted_at # NULL
    /\ get_user_device_counts = ("1" :> 2 @@ "2" :> 0)

\* ------------------------------------------------------------------ C7
\* C7: a hard delete cascades to links only. hard_delete_user(A) removes the
\* row of A and the links of A and changes no edge row, no other account and no
\* other link; hard_delete_edge(E) removes the row of E and the links of E and
\* changes no account row, no other edge and no other link.
C7_HardDeleteFrame ==
    [][ /\ (last'.op = "hard_delete_user" /\ last'.status = "ok") =>
            /\ edges' = edges
            /\ users' = Restrict(users, DOMAIN users \ {last'.uid})
            /\ links' = { r \in links : r.user_id # last'.uid }
        /\ (last'.op = "hard_delete_edge" /\ last'.status = "ok") =>
            /\ users' = users
            /\ edges' = Restrict(edges, DOMAIN edges \ {last'.eid})
            /\ links' = { r \in links : r.edge_id # last'.eid } ]_vars

\* Account 1, which owned an edge, was hard-deleted: both edges are still there
\* and the other account still owns its edge.
C7_Witness ==
    /\ last = Call("hard_delete_user", 1, None, "ok", 1)
    /\ DOMAIN users = {2}
    /\ DOMAIN edges = {1, 2}
    /\ Cardinality(links) = 1

\* ------------------------------------------------------------------ C8
ListedIds == { u.id : u \in get_all_users }

\* C8: soft-delete round trip. When soft_delete_user(A, True) on an existing
\* account is followed by soft_delete_user(A, False), deleted_at of A is null
\* again and get_all_users lists A between and after the two calls; and an
\* account leaves get_all_users only by a hard_delete_user of that account.
C8_SoftDeleteRoundTrip ==
    [][ /\ ( /\ last.op = "soft_delete_user" /\ last.status = "ok"
             /\ last.uid \in DOMAIN users
             /\ last'.op = "undelete_user" /\ last'.status = "ok"
             /\ last'.uid = last.uid )
            => /\ last.uid \in ListedIds
               /\ last.uid \in ListedIds'
               /\ users'[last.uid].deleted_at = NULL
        /\ \A u \in ListedIds \ ListedIds' :
               last'.op = "hard_delete_user" /\ last'.uid = u ]_vars

\* Account 1 was soft-deleted and has just been undeleted.
C8_Witness ==
    /\ last = Call("undelete_user", 1, None, "ok", 1)
    /\ 1 \in ListedIds
    /\ users[1].deleted_at = NULL

\* ------------------------------------------------------------------ pages
\* How many users and edges a browser session adds.
MaxPageUsers == 1
MaxPageEdges == 1

\* Texts typed into the dialogs.
UiTexts == { <<>>, <<" ">>, <<"a">> }
RoleTexts == { <<"r", ",", " ">> }

\* text.split(","): the parts of s between commas.
RECURSIVE SplitComma(_, _, _)
SplitComma(s, cur, acc) ==
    IF s = <<>> THEN Append(acc, cur)
    ELSE IF Head(s) = "," THEN SplitComma(Tail(s), <<>>, Append(acc, cur))
    ELSE SplitComma(Tail(s), Append(cur, Head(s)), acc)

IsRole(r) == r # <<>>

_csv_to_roles(text) ==
    LET parts == SplitComma(IF Truthy(text) THEN text ELSE <<>>, <<>>, <<>>)
    IN  SelectSeq([i \in 1..Len(parts) |-> strip(parts[i])], IsRole)

\* A uuid as text (str(id), id::text) and back (the cast of a text parameter).
ParseUserId(t) == CHOOSE u \in UserIds : ToString(u) = t
ParseEdgeId(t) == CHOOSE e \in EdgeIds : ToString(e) = t
\* owner.value or None
OwnerArg(v) == IF v = "" THEN None ELSE ParseUserId(v)

\* The table rows, with the columns the handlers read back from a selected
\* row: User.to_ui_row's id and deleted_at, Edge.to_ui_row's id.
UserRow(U, u) ==
    [id |-> ToString(u),
     deleted_at |-> IF U[u].deleted_at = NULL THEN "" ELSE ToString(U[u].deleted_at)]
UsersRows(U) == { UserRow(U, u) : u \in DOMAIN U }

EdgeRow(E, e) == [id |-> ToString(e)]
EdgesRows(E) == { EdgeRow(E, e) : e \in DOMAIN E }

\* EdgesPage._load_owner_options: the values of the select's options.
OwnerOptions(U) == { ToString(u) : u \in DOMAIN U }

uiFrame == UNCHANGED <<lastSet, tx, ret>>
storeFrame == UNCHANGED <<users, edges, links, userSeq, edgeSeq, now, last, conns>>

\* How a callback ends: with a notification (or none) and no store error, with
\* a store error caught and notified, or with the exception leaving the callback.
Notified(page, text) == [page EXCEPT !.notify = text, !.error = "none"]
Quiet(page) == Notified(page, "")
Caught(page, text) == [page EXCEPT !.notify = text, !.error = "caught"]
Propagated(page) == [page EXCEPT !.notify = "", !.error = "propagated"]

\* Where the store fails during a callback of the Users page (its repository
\* call, or the refresh after it) and of the Edges page (its first repository
\* call, a statement of set_edge_owner_id, or the refresh).
UiFaults == {"none", "call", "refresh"}
EdgeFaults == {"none", "call", "delete", "insert", "commit", "refresh"}
PageFaults == {"none", "users", "owners", "edges", "show"}

\* admin_app: a browser session loads the page; UsersPage and EdgesPage are
\* constructed and read the store, then show_view('users') refreshes the Users
\* table. Only EdgesPage catches the errors of its reads; when the exception
\* leaves admin_app the session gets no page (view "none") until it reloads.
PageLoad(fault) ==
    LET built == [NoPage EXCEPT
                    !.users_rows = UsersRows(users),
                    !.edges_rows = IF fault = "edges" THEN {} ELSE EdgesRows(edges),
                    !.owner_options = IF fault = "owners" THEN {} ELSE OwnerOptions(users)]
    IN  /\ ui' = CASE fault = "users" -> Propagated([NoPage EXCEPT !.view = "none"])
                   [] fault = "owners" -> Caught(built, "Owner list error")
                   [] fault = "edges" -> Caught(built, "DB error")
                   [] fault = "show" -> Propagated([built EXCEPT !.view = "none"])
                   [] OTHER -> built
        /\ storeFrame
        /\ uiFrame

\* ---- Users page
\* show_view('users'): the Users table is refreshed, then the Users view is
\* shown; UsersPage.refresh catches nothing.
ShowUsers(fault) ==
    /\ ui.view # "none"
    /\ ui.dialog = NoDialog
    /\ ui' = IF fault THEN Propagated(ui)
             ELSE Quiet([ui EXCEPT !.view = "users", !.users_rows = UsersRows(users),
                                   !.users_selected = NoRow])
    /\ storeFrame
    /\ uiFrame

\* show_view('edges'): the Edges view is shown as it was left.
ShowEdges ==
    /\ ui.view # "none"
    /\ ui.dialog = NoDialog
    /\ ui' = Quiet([ui EXCEPT !.view = "edges"])
    /\ storeFrame
    /\ uiFrame

UsersSelect ==
    /\ ui.view = "users"
    /\ ui.dialog = NoDialog
    /\ \E r \in ui.users_rows \cup {NoRow} : ui' = Quiet([ui EXCEPT !.users_selected = r])
    /\ storeFrame
    /\ uiFrame

UsersOpenAdd ==
    /\ ui.view = "users"
    /\ ui.dialog = NoDialog
    /\ ui' = Quiet([ui EXCEPT !.dialog = [NoDialog EXCEPT !.kind = "add_user"]])
    /\ storeFrame
    /\ uiFrame

\* UsersPage.refresh
UsersRefreshed(page, U) ==
    [page EXCEPT !.users_rows = UsersRows(U), !.users_selected = NoRow]

\* The try block of a Users dialog handler after its repository call: notify,
\* dialog.close(), self.refresh(); except: notify the error.
UsersTried(done, U, fault) ==
    CASE fault = "call" -> Caught(ui, "DB error")
      [] fault = "refresh" -> Caught([ui EXCEPT !.dialog = NoDialog], "DB error")
      [] OTHER -> UsersRefreshed(Notified([ui EXCEPT !.dialog = NoDialog], done), U)

\* open_add_dialog.save
UsersAddSave(name, pw, roles, salt, fault) ==
    /\ ui.dialog.kind = "add_user"
    /\ IF ~Truthy(name) \/ ~Truthy(pw)
       THEN /\ ui' = Notified(ui, "Username and password required")
            /\ storeFrame
       ELSE /\ userSeq < MaxPageUsers
            /\ create_user(name, pw, _csv_to_roles(roles), salt, fault = "call")
            /\ ui' = UsersTried("User created", users', fault)
    /\ uiFrame

\* open_edit_dialog
UsersOpenEdit ==
    /\ ui.view = "users"
    /\ ui.dialog = NoDialog
    /\ ui' = IF ui.users_selected = NoRow THEN Notified(ui, "Select a row first")
             ELSE Quiet([ui EXCEPT !.dialog = [NoDialog EXCEPT !.kind = "edit_user",
                                                               !.sel = ui.users_selected.id]])
    /\ storeFrame
    /\ uiFrame

\* open_edit_dialog.save
UsersEditSave(name, roles, new_pw, salt, fault) ==
    /\ ui.dialog.kind = "edit_user"
    /\ IF ~Truthy(name)
       THEN /\ ui' = Notified(ui, "Username required")
            /\ storeFrame
       ELSE /\ update_user(ParseUserId(ui.dialog.sel), name, _csv_to_roles(roles),
                           IF Truthy(new_pw) THEN new_pw ELSE NoneText, salt, fault = "call")
            /\ ui' = UsersTried("User updated", users', fault)
    /\ uiFrame

\* open_delete_dialog: the dialog keeps whether the selected row was shown as
\* soft-deleted.
UsersOpenDelete ==
    /\ ui.view = "users"
    /\ ui.dialog = NoDialog
    /\ ui' = IF ui.users_selected = NoRow THEN Notified(ui, "Select a row first")
             ELSE Quiet([ui EXCEPT !.dialog = [NoDialog EXCEPT
                                        !.kind = "delete_user",
                                        !.sel = ui.users_selected.id,
                                        !.deleted = ui.users_selected.deleted_at # ""]])
    /\ storeFrame
    /\ uiFrame

\* open_delete_dialog.delete
UsersDeleteConfirm(fault) ==
    /\ ui.dialog.kind = "delete_user"
    /\ soft_delete_user(ParseUserId(ui.dialog.sel), ui.dialog.deleted = FALSE, fault = "call")
    /\ ui' = UsersTried(IF ui.dialog.deleted THEN "User undeleted" ELSE "User soft-deleted",
                        users', fault)
    /\ uiFrame

UsersOpenHardDelete_NoConfirm ==
    /\ ui.view = "users"
    /\ ui.dialog = NoDialog
    /\ IF ui.users_selected = NoRow \/ ui.users_selected.deleted_at = ""
       THEN /\ ui' = Notified(ui, "Select a soft deleted row first")
            /\ storeFrame
       ELSE /\ hard_delete_user(ParseUserId(ui.users_selected.id), FALSE)
            /\ ui' = UsersRefreshed(Notified(ui, "User hard-deleted"), users')
    /\ uiFrame

\* open_hard_delete_dialog: only for a row shown as soft-deleted.
UsersOpenHardDelete ==
    /\ ui.view = "users"
    /\ ui.dialog = NoDialog
    /\ ui' = IF ui.users_selected = NoRow \/ ui.users_selected.deleted_at = ""
             THEN Notified(ui, "Select a soft deleted row first")
             ELSE Quiet([ui EXCEPT !.dialog = [NoDialog EXCEPT !.kind = "hard_delete_user",
                                                               !.sel = ui.users_selected.id]])
    /\ storeFrame
    /\ uiFrame

\* open_hard_delete_dialog.delete
UsersHardDeleteConfirm(fault) ==
    /\ ui.dialog.kind = "hard_delete_user"
    /\ hard_delete_user(ParseUserId(ui.dialog.sel), fault = "call")
    /\ ui' = UsersTried("User hard-deleted", users', fault)
    /\ uiFrame

\* the Cancel button of a dialog
DialogCancel ==
    /\ ui.dialog # NoDialog
    /\ ui' = Quiet([ui EXCEPT !.dialog = NoDialog])
    /\ storeFrame
    /\ uiFrame

\* ---- Edges page
EdgesSelect ==
    /\ ui.view = "edges"
    /\ ui.dialog = NoDialog
    /\ \E r \in ui.edges_rows \cup {NoRow} : ui' = Quiet([ui EXCEPT !.edges_selected = r])
    /\ storeFrame
    /\ uiFrame

EdgesOpenAdd ==
    /\ ui.view = "edges"
    /\ ui.dialog = NoDialog
    /\ ui' = Quiet([ui EXCEPT !.dialog = [NoDialog EXCEPT !.kind = "add_edge"]])
    /\ storeFrame
    /\ uiFrame

\* The values the owner select of an open dialog can hold: cleared, an
\* option, or the value the dialog was opened with.
OwnerValues == {"", ui.dialog.owner} \cup ui.owner_options

\* EdgesPage.refresh, which catches the error of its read and shows no rows.
EdgesRefreshed(page, E) ==
    [page EXCEPT !.edges_rows = EdgesRows(E), !.edges_selected = NoRow]
EdgesRefreshFailed(page) ==
    Caught([page EXCEPT !.edges_rows = {}, !.edges_selected = NoRow], "DB error")

\* The statement of set_edge_owner_id at which the store fails.
FailAtOf(fault) == IF fault \in {"delete", "insert", "commit"} THEN fault ELSE "none"

\* The try block of the edge dialogs' save once the edges table is E1:
\* set_edge_owner_id(edge_id, owner), then notify, close, refresh.
SaveOwnerAndRefresh(E1, edge_id, owner, fault, done) ==
    LET o == OwnerArg(owner)
        failAt == FailAtOf(fault)
    IN  /\ failAt = "insert" => TruthyId(o)
        /\ links' = SetOwnerLinks(links, users, E1, edge_id, o, failAt)
        /\ conns' = WithConn(WithConn(conns, FALSE),
                             SetOwnerRaised(users, E1, edge_id, o, failAt))
        /\ last' = Call("set_edge_owner_id", o, edge_id,
                        SetOwnerStatus(users, E1, edge_id, o, failAt),
                        Cardinality(LinksOfEdge(links, edge_id)))
        /\ ui' = IF SetOwnerRaised(users, E1, edge_id, o, failAt)
                 THEN Caught(ui, "DB error")
                 ELSE IF fault = "refresh"
                 THEN EdgesRefreshFailed([ui EXCEPT !.dialog = NoDialog])
                 ELSE EdgesRefreshed(Notified([ui EXCEPT !.dialog = NoDialog], done), E1)

EdgesAddSave_OneTransaction(serial, typ, owner, fault) ==
    /\ ui.dialog.kind = "add_edge"
    /\ IF ~Truthy(serial) \/ ~Truthy(typ)
       THEN /\ ui' = Notified(ui, "Serial number and type are required")
            /\ storeFrame
       ELSE IF fault = "call"
       THEN /\ edgeSeq < MaxPageEdges
            /\ create_edge(strip(serial), strip(typ), TRUE)
            /\ ui' = Caught(ui, "DB error")
       ELSE LET edge_id == edgeSeq + 1
                E1 == EdgesAfterCreate(edges, edge_id, strip(serial), strip(typ), FALSE)
                raised == SetOwnerRaised(users, E1, edge_id, OwnerArg(owner), FailAtOf(fault))
            IN  /\ edgeSeq < MaxPageEdges
                /\ edgeSeq < MaxEdges
                /\ edges' = ConnExit(edges, E1, raised)
                /\ edgeSeq' = ConnExit(edgeSeq, edge_id, raised)
                /\ SaveOwnerAndRefresh(E1, edge_id, owner, fault, "Edge created")
                /\ UNCHANGED <<users, userSeq, now>>
    /\ uiFrame

\* open_add_dialog.save
EdgesAddSave(serial, typ, owner, fault) ==
    /\ ui.dialog.kind = "add_edge"
    /\ IF ~Truthy(serial) \/ ~Truthy(typ)
       THEN /\ ui' = Notified(ui, "Serial number and type are required")
            /\ storeFrame
       ELSE IF fault = "call"
       THEN /\ edgeSeq < MaxPageEdges
            /\ create_edge(strip(serial), strip(typ), TRUE)
            /\ ui' = Caught(ui, "DB error")
       ELSE LET edge_id == edgeSeq + 1
                E1 == EdgesAfterCreate(edges, edge_id, strip(serial), strip(typ), FALSE)
            IN  /\ edgeSeq < MaxPageEdges
                /\ edgeSeq < MaxEdges
                /\ edges' = E1
                /\ edgeSeq' = edge_id
                /\ SaveOwnerAndRefresh(E1, edge_id, owner, fault, "Edge created")
                /\ UNCHANGED <<users, userSeq, now>>
    /\ uiFrame

\* open_edit_dialog: the owner select is pre-filled from get_edge_owner_id; if
\* the lookup fails the dialog opens with no owner.
EdgesOpenEdit(fault) ==
    /\ ui.view = "edges"
    /\ ui.dialog = NoDialog
    /\ IF ui.edges_selected = NoRow
       THEN ui' = Notified(ui, "Select a row first")
       ELSE IF fault
       THEN ui' = Caught([ui EXCEPT !.dialog = [NoDialog EXCEPT !.kind = "edit_edge",
                                                                !.sel = ui.edges_selected.id]],
                         "Owner lookup error")
       ELSE \E owner_id \in get_edge_owner_id(ParseEdgeId(ui.edges_selected.id)) :
                ui' = Quiet([ui EXCEPT !.dialog = [NoDialog EXCEPT
                                        !.kind = "edit_edge",
                                        !.sel = ui.edges_selected.id,
                                        !.owner = IF owner_id = None THEN ""
                                                  ELSE ToString(owner_id)]])
    /\ storeFrame
    /\ uiFrame

\* open_edit_dialog.save
EdgesEditSave(serial, typ, owner, fault) ==
    /\ ui.dialog.kind = "edit_edge"
    /\ IF ~Truthy(serial) \/ ~Truthy(typ)
       THEN /\ ui' = Notified(ui, "Serial number and type are required")
            /\ storeFrame
       ELSE IF fault = "call"
       THEN /\ update_edge(ParseEdgeId(ui.dialog.sel), strip(serial), strip(typ), TRUE)
            /\ ui' = Caught(ui, "DB error")
       ELSE LET edge_id == ParseEdgeId(ui.dialog.sel)
                E1 == EdgesAfterUpdate(edges, edge_id, strip(serial), strip(typ), FALSE)
            IN  /\ edges' = E1
                /\ SaveOwnerAndRefresh(E1, edge_id, owner, fault, "Edge updated")
                /\ UNCHANGED <<users, userSeq, edgeSeq, now>>
    /\ uiFrame

\* open_delete_dialog
EdgesOpenDelete ==
    /\ ui.view = "edges"
    /\ ui.dialog = NoDialog
    /\ ui' = IF ui.edges_selected = NoRow THEN Notified(ui, "Select a row first")
             ELSE Quiet([ui EXCEPT !.dialog = [NoDialog EXCEPT !.kind = "delete_edge",
                                                               !.sel = ui.edges_selected.id]])
    /\ storeFrame
    /\ uiFrame

\* open_delete_dialog.delete
EdgesDeleteConfirm(fault) ==
    /\ ui.dialog.kind = "delete_edge"
    /\ hard_delete_edge(ParseEdgeId(ui.dialog.sel), fault = "call")
    /\ ui' = CASE fault = "call" -> Caught(ui, "DB error")
               [] fault = "refresh" -> EdgesRefreshFailed([ui EXCEPT !.dialog = NoDialog])
               [] OTHER -> EdgesRefreshed(Notified([ui EXCEPT !.dialog = NoDialog],
                                                   "Edge deleted"), edges')
    /\ uiFrame

UiPasswords == { <<>>, <<"p">> }
NextUI ==
    \/ \E fault \in PageFaults : PageLoad(fault)
    \/ \E fault \in BOOLEAN : ShowUsers(fault)
    \/ ShowEdges
    \/ UsersSelect
    \/ UsersOpenAdd
    \/ \E name \in UiTexts, pw \in UiPasswords, roles \in RoleTexts, fault \in UiFaults :
         UsersAddSave(name, pw, roles, 1, fault)
    \/ UsersOpenEdit
    \/ \E name \in UiTexts, roles \in RoleTexts, new_pw \in UiPasswords, fault \in UiFaults :
         UsersEditSave(name, roles, new_pw, 1, fault)
    \/ UsersOpenDelete
    \/ \E fault \in UiFaults : UsersDeleteConfirm(fault)
    \/ UsersOpenHardDelete
    \/ \E fault \in UiFaults : UsersHardDeleteConfirm(fault)
    \/ DialogCancel
    \/ EdgesSelect
    \/ EdgesOpenAdd
    \/ \E serial \in UiTexts, typ \in UiTexts, owner \in OwnerValues, fault \in EdgeFaults :
         EdgesAddSave(serial, typ, owner, fault)
    \/ \E fault \in BOOLEAN : EdgesOpenEdit(fault)
    \/ \E serial \in UiTexts, typ \in UiTexts, owner \in OwnerValues, fault \in EdgeFaults :
         EdgesEditSave(serial, typ, owner, fault)
    \/ EdgesOpenDelete
    \/ \E fault \in UiFaults : EdgesDeleteConfirm(fault)

SpecUI == Init /\ [][NextUI]_vars

\* C10: every stored username is non-empty, and every stored serial number and
\* type is non-empty, whatever is typed into the add and edit dialogs of the
\* Users and Edges pages (whitespace-only input included).
C10_NonEmptyFields ==
    /\ \A u \in DOMAIN users : users[u].username # <<>>
    /\ \A e \in DOMAIN edges : edges[e].serial_number # <<>> /\ edges[e].type # <<>>

\* ------------------------------------------------------------------ C11
\* C11: operations on a nonexistent id surface NotFoundError. update_user,
\* soft_delete_user, hard_delete_user, update_edge and hard_delete_edge called
\* with an id that matches no row end with NotFoundError and leave the store
\* unchanged.
C11_NotFound ==
    [][ ( \/ /\ last'.op \in {"update_user", "soft_delete_user", "undelete_user",
                              "hard_delete_user"}
             /\ last'.uid \notin DOMAIN users
          \/ /\ last'.op \in {"update_edge", "hard_delete_edge"}
             /\ last'.eid \notin DOMAIN edges )
        => /\ last'.status = "NotFoundError"
           /\ users' = users /\ edges' = edges /\ links' = links ]_vars

\* ------------------------------------------------------------------ SpecUpdate
\* update_user called with every kind of argument on a store that earlier
\* calls have filled: accounts (some soft-deleted at time 1), edges, and at
\* most one owner per edge.
UpdateTexts == { <<" ", "b", " ">> }
UpdateRoles == { <<>> }
UpdatePasswords == { NoneText, <<>>, <<"q">> }
UpdateSalts == {2}

StoredAccounts ==
    UNION { { [u \in S |-> [StoredUser EXCEPT !.deleted_at = d[u]]] :
                d \in [S -> {NULL, 1}] } : S \in SUBSET UserIds }
StoredLinks(U) ==
    { { [rid |-> 1, user_id |-> f[e], edge_id |-> e] : e \in { x \in EdgeIds : f[x] # None } } :
        f \in [EdgeIds -> DOMAIN U \cup {None}] }

InitUpdate ==
    /\ userSeq = MaxUsers
    /\ edgeSeq = MaxEdges
    /\ users \in StoredAccounts
    /\ edges = [e \in EdgeIds |-> StoredEdge]
    /\ links \in StoredLinks(users)
    /\ now = 1
    /\ last = Call("none", None, None, "ok", 0)
    /\ lastSet = [e \in EdgeIds |-> NoCall]
    /\ tx = [t \in Callers |-> NoTx]
    /\ ui = NoPage
    /\ conns = 0
    /\ ret = NoRet

UpdateUserAny ==
    /\ \E u \in UserIds, n \in UpdateTexts, r \in UpdateRoles, p \in UpdatePasswords,
          s \in UpdateSalts, fault \in BOOLEAN :
            update_user(u, n, r, p, s, fault)
    /\ UNCHANGED <<lastSet, tx, ui, ret>>

NextUpdate == UpdateUserAny

SpecUpdate == InitUpdate /\ [][NextUpdate]_vars

\* C12: update_user on an existing account overwrites username (trimmed) and
\* roles always; it overwrites the credential hash when a new password is
\* supplied, and leaves it as it was when new_password is None or empty; the
\* set of account ids, deleted_at of the account and all links stay as they
\* were.
C12_UpdateUserFrame ==
    [][ (last'.op = "update_user" /\ last'.status = "ok" /\ last'.uid \in DOMAIN users) =>
        LET u == last'.uid
        IN  \A n \in UpdateTexts, r \in UpdateRoles, p \in UpdatePasswords, s \in UpdateSalts :
                update_user(u, n, r, p, s, FALSE) =>
                    /\ DOMAIN users' = DOMAIN users
                    /\ users'[u].username = strip(n)
                    /\ users'[u].roles = r
                    /\ IF p \in {NoneText, <<>>}
                       THEN users'[u].password_hash = users[u].password_hash
                       ELSE users'[u].password_hash = hashpw(p, s)
                    /\ users'[u].deleted_at = users[u].deleted_at
                    /\ links' = links ]_vars

\* Account 1, soft-deleted and owner of edge 1, got a new name, new roles and
\* a new credential; account 2 got a new name and kept its credential.
C12_Witness ==
    /\ last.op = "update_user" /\ last.status = "ok"
    /\ DOMAIN users = {1, 2}
    /\ users[1].username = <<"b">> /\ users[1].roles = <<>>
    /\ users[1].password_hash = hashpw(<<"q">>, 2)
    /\ users[1].deleted_at = 1
    /\ OwnersOfEdge(links, 1) = {1}
    /\ users[2].username = <<"b">>
    /\ users[2].password_hash = StoredUser.password_hash

\* ------------------------------------------------------------------ SpecClock
\* The account operations that read or should read the clock, with time
\* passing between the calls.
MaxTime == 3

\* datetime.now(timezone.utc) has moved on.
Tick ==
    /\ now < MaxTime
    /\ now' = now + 1
    /\ UNCHANGED <<users, edges, links, userSeq, edgeSeq, last, lastSet, tx, ui, conns, ret>>

ClockCreateUser ==
    /\ \E n \in SpecTexts, p \in SpecPasswords, r \in SpecRoles, s \in SpecSalts :
            create_user(n, p, r, s, FALSE)
    /\ UNCHANGED <<lastSet, tx, ui, ret>>
ClockUpdateUser ==
    /\ \E u \in UserIds, n \in SpecTexts, r \in SpecRoles, s \in SpecSalts :
            update_user(u, n, r, NoneText, s, FALSE)
    /\ UNCHANGED <<lastSet, tx, ui, ret>>
ClockSoftDeleteUser ==
    /\ \E u \in UserIds, d \in BOOLEAN : soft_delete_user(u, d, FALSE)
    /\ UNCHANGED <<lastSet, tx, ui, ret>>

NextClock ==
    \/ Tick
    \/ ClockCreateUser
    \/ ClockUpdateUser
    \/ ClockSoftDeleteUser

SpecClock == Init /\ [][NextClock]_vars

\* C13: updated_at is the time of the last mutation of an account. After a
\* create_user the new account's updated_at is the time of the call, and after
\* an update_user of an existing account its updated_at is the time of that
\* update.
C13_UpdatedAtIsLastMutation ==
    [][ /\ (last'.op = "create_user" /\ last'.status = "ok" /\ last'.uid \notin DOMAIN users)
            => users'[last'.uid].updated_at = now
        /\ (last'.op = "update_user" /\ last'.status = "ok" /\ last'.uid \in DOMAIN users)
            => users'[last'.uid].updated_at = now ]_vars

\* C14: soft_delete_user is idempotent. A second soft_delete_user(A, d) right
\* after a first one with the same arguments, at whatever time, leaves every
\* account row, deleted_at included, as the first call left it.
C14_SoftDeleteIdempotent ==
    [][ ( /\ last.op \in {"soft_delete_user", "undelete_user"} /\ last.status = "ok"
          /\ last'.op = last.op /\ last'.status = "ok" /\ last'.uid = last.uid )
        => users' = users ]_vars

\* ------------------------------------------------------------------ C15
OpenCalls == { t \in Callers : tx[t].pc \notin Finished }

\* C15: no connection leaks. The connections held are exactly those of the
\* calls that are inside their with block, so once every call has returned,
\* normally or with an exception, no connection is held.
C15_NoConnectionLeak ==
    /\ conns = Cardinality(OpenCalls)
    /\ OpenCalls = {} => conns = 0

\* One caller's call has failed and the other's has committed; a call made
\* alone afterwards failed at its commit.
C15_Witness ==
    /\ tx[1].pc = "failed"
    /\ tx[2].pc = "committed"
    /\ last.op = "set_edge_owner_id" /\ last.status = "OperationalError"
    /\ conns = 0

\* ------------------------------------------------------------------ get_all_edges
\* ORDER BY on text: character by character.
CharCode(c) ==
    CASE c = " " -> 32 [] c = "," -> 44 [] c = "a" -> 97 [] c = "b" -> 98
      [] c = "p" -> 112 [] c = "q" -> 113 [] c = "r" -> 114 [] OTHER -> 127

RECURSIVE TextLeq(_, _)
TextLeq(a, b) ==
    IF a = <<>> THEN TRUE
    ELSE IF b = <<>> THEN FALSE
    ELSE IF Head(a) = Head(b) THEN TextLeq(Tail(a), Tail(b))
    ELSE CharCode(Head(a)) < CharCode(Head(b))

\* A row of edges e joined with a link row l, or with no link (LEFT JOIN).
NoLink == [rid |-> NULL, user_id |-> NULL, edge_id |-> NULL]
EdgeJoin(e, l) == [e |-> e, l |-> l]

\* The join without its condition on l.user_id.
EdgesJoinLinksOf_AnyOwner(owner_id) ==
    { EdgeJoin(l.edge_id, l) : l \in { x \in links : x.edge_id \in DOMAIN edges } }

\* FROM edges e JOIN user_edge_link l ON l.edge_id = e.id AND l.user_id = %s
EdgesJoinLinksOf(owner_id) ==
    { EdgeJoin(l.edge_id, l) : l \in { x \in links : x.edge_id \in DOMAIN edges
                                                     /\ x.user_id = owner_id } }

\* Without LIMIT 1 the lateral join yields one row per link row.
EdgesLateralOne_NoLimit ==
    { { EdgeJoin(l.edge_id, l) : l \in { x \in links : x.edge_id \in DOMAIN edges } }
      \cup { EdgeJoin(e, NoLink) : e \in { x \in DOMAIN edges : LinksOfEdge(links, x) = {} } } }

\* FROM edges e LEFT JOIN LATERAL (SELECT ... LIMIT 1) l ON TRUE: every edge
\* with one of its link rows, whichever the server finds first, or with none.
EdgesLateralOne ==
    { { EdgeJoin(e, pick[e]) : e \in DOMAIN edges } :
        pick \in { f \in [DOMAIN edges -> links \cup {NoLink}] :
                    \A e \in DOMAIN edges :
                        IF LinksOfEdge(links, e) = {} THEN f[e] = NoLink
                        ELSE f[e] \in LinksOfEdge(links, e) } }

\* ORDER BY e.serial_number: the orders the server may return the joined rows
\* in (rows with equal serial numbers in any order).
RECURSIVE OrderedBySerial(_)
OrderedBySerial(J) ==
    IF J = {} THEN { <<>> }
    ELSE LET first == { j \in J : \A k \in J :
                            TextLeq(edges[j.e].serial_number, edges[k.e].serial_number) }
         IN  UNION { { <<j>> \o rest : rest \in OrderedBySerial(J \ {j}) } : j \in first }

\* LEFT JOIN users u ON u.id = l.user_id, the select list, and Edge.from_row.
EdgeFromRow(j) ==
    LET u == j.l.user_id
    IN  [id |-> j.e, serial_number |-> edges[j.e].serial_number, type |-> edges[j.e].type,
         owner_user_id |-> IF u \in DOMAIN users THEN u ELSE None,
         owner_username |-> IF u \in DOMAIN users THEN users[u].username ELSE NoneText]

EdgesFromRows(rows) == [i \in 1..Len(rows) |-> EdgeFromRow(rows[i])]

\* The lists get_all_edges(owner_id=...) can return.
get_all_edges(owner_id) ==
    IF TruthyId(owner_id)
    THEN { EdgesFromRows(rows) : rows \in OrderedBySerial(EdgesJoinLinksOf(owner_id)) }
    ELSE UNION { { EdgesFromRows(rows) : rows \in OrderedBySerial(J) } : J \in EdgesLateralOne }

\* ------------------------------------------------------------------ SpecRead
\* get_all_edges called on a store that earlier calls have filled: edges with
\* equal and with different serial numbers, each with no link row, one, or the
\* two rows that two overlapping set_edge_owner_id calls leave.
ReadSerials == { <<"a">>, <<"b">> }

RowsLeft(U) ==
    { p \in (DOMAIN U \cup {None}) \X (DOMAIN U \cup {None}) :
        /\ p[1] = None => p[2] = None
        /\ p[2] # None => p[1] <= p[2] }
LinksLeft(U) ==
    { UNION { { [rid |-> i, user_id |-> f[e][i], edge_id |-> e] :
                    i \in { k \in {1, 2} : f[e][k] # None } } : e \in EdgeIds } :
        f \in [EdgeIds -> RowsLeft(U)] }

InitRead ==
    /\ userSeq = MaxUsers
    /\ edgeSeq = MaxEdges
    /\ users \in StoredUsers
    /\ edges \in { [e \in EdgeIds |-> [StoredEdge EXCEPT !.serial_number = sn[e]]] :
                    sn \in [EdgeIds -> ReadSerials] }
    /\ links \in LinksLeft(users)
    /\ now = 1
    /\ last = Call("none", None, None, "ok", 0)
    /\ lastSet = [e \in EdgeIds |-> NoCall]
    /\ tx = [t \in Callers |-> NoTx]
    /\ ui = NoPage
    /\ conns = 0
    /\ ret = NoRet

ReadAllEdges ==
    /\ \E owner_id \in UserIds \cup {None} :
        \E rows \in get_all_edges(owner_id) :
            ret' = [op |-> "get_all_edges", owner_id |-> owner_id, rows |-> rows]
    /\ conns' = WithConn(conns, FALSE)
    /\ UNCHANGED <<users, edges, links, userSeq, edgeSeq, now, last, lastSet, tx, ui>>

NextRead == ReadAllEdges

SpecRead == InitRead /\ [][NextRead]_vars

\* C16: get_all_edges(owner_id=A) returns exactly the edges that have a link
\* row to A; get_all_edges() returns every edge exactly once, annotated with
\* one of its linked owners, or with no owner if it has no link row, even if
\* the edge has several link rows; both lists are in ascending order of serial
\* number.
C16_GetAllEdges ==
    ret.op = "get_all_edges" =>
        LET rows == ret.rows
            A == ret.owner_id
            ids == { rows[i].id : i \in 1..Len(rows) }
        IN  /\ IF A # None
               THEN ids = { e \in DOMAIN edges : \E l \in links : l.edge_id = e /\ l.user_id = A }
               ELSE /\ ids = DOMAIN edges
                    /\ Len(rows) = Cardinality(DOMAIN edges)
                    /\ \A i \in 1..Len(rows) :
                        rows[i].owner_user_id \in
                            (IF LinksOfEdge(links, rows[i].id) = {} THEN {None}
                             ELSE OwnersOfEdge(links, rows[i].id))
            /\ \A i, j \in 1..Len(rows) :
                i < j => TextLeq(rows[i].serial_number, rows[j].serial_number)

\* The unfiltered list puts edge 2 (serial "a") before edge 1 (serial "b"), and
\* shows account 2 for edge 1, which has link rows to accounts 1 and 2.
C16_Witness ==
    /\ ret.op = "get_all_edges" /\ ret.owner_id = None
    /\ OwnersOfEdge(links, 1) = {1, 2}
    /\ Len(ret.rows) = 2
    /\ ret.rows[1].id = 2 /\ ret.rows[2].id = 1
    /\ ret.rows[2].owner_user_id = 2

\* ------------------------------------------------------------------ C17
\* C17: the read views agree. In every state reached by calls made one at a
\* time, the owner that get_all_edges() shows for an edge is the one
\* get_edge_owner_id returns for it (None for both when the edge has no owner),
\* and get_user_device_counts()[A] is the number of edges that
\* get_all_edges(owner_id=A) returns, for every account A.
C17_ReadViewsAgree ==
    /\ \A rows \in get_all_edges(None) : \A i \in 1..Len(rows) :
            get_edge_owner_id(rows[i].id) = { rows[i].owner_user_id }
    /\ \A A \in DOMAIN users : \A rows \in get_all_edges(A) :
            get_user_device_counts[ToString(A)] = Len(rows)

\* Edge 1 has just been given to account 1 and edge 2 has no owner: the list
\* shows account 1 for edge 1 and nobody for edge 2, and the counts are 1 and 0.
C17_Witness ==
    /\ last = Call("set_edge_owner_id", 1, 1, "ok", 0)
    /\ DOMAIN users = {1, 2} /\ DOMAIN edges = {1, 2}
    /\ get_user_device_counts = ("1" :> 1 @@ "2" :> 0)
    /\ \E rows \in get_all_edges(None) :
            /\ rows[1].id = 1 /\ rows[1].owner_user_id = 1
            /\ rows[2].id = 2 /\ rows[2].owner_user_id = None
    /\ get_edge_owner_id(2) = {None}


\* C18: every store error raised during a page callback (page construction,
\* switching to the Users or Edges view, a table refresh, a dialog's save or
\* delete handler) is caught and shown as a notification: no callback ends
\* with the exception propagated, and a caught error always leaves a
\* notification on the page.
C18_ErrorsNotified ==
    /\ ui.error # "propagated"
    /\ ui.error = "caught" => ui.notify # ""


\* ------------------------------------------------------------------ C19
\* C19: set_edge_owner_id is the only operation that can create a link. Every
\* other repository call (create_user, update_user, soft_delete_user,
\* hard_delete_user, create_edge, update_edge, hard_delete_edge) adds no row to
\* user_edge_link: the link rows after it are a subset of those before. The
\* reads change no table at all.
C19_OnlySetOwnerCreatesLinks ==
    [][ last'.op # "set_edge_owner_id" => links' \subseteq links ]_vars

\* An edge has just been created in a store that holds a link of another edge:
\* the new edge has no link and the old link is still there.
C19_Witness ==
    /\ last = Call("create_edge", None, 2, "ok", 0)
    /\ LinksOfEdge(links, 1) # {}
    /\ LinksOfEdge(links, 2) = {}


\* ------------------------------------------------------------------ SpecConfirm
\* One browser session on a store that earlier sessions left: every account
\* and edge exists, any of the accounts is soft-deleted, and account 1 owns
\* the edges. The session selects rows and uses the delete dialogs.
InitConfirm ==
    /\ userSeq = MaxUsers
    /\ edgeSeq = MaxEdges
    /\ users \in { [u \in UserIds |-> [StoredUser EXCEPT !.deleted_at = d[u]]] :
                     d \in [UserIds -> {NULL, 1}] }
    /\ edges = [e \in EdgeIds |-> StoredEdge]
    /\ links = { [rid |-> 1, user_id |-> 1, edge_id |-> e] : e \in EdgeIds }
    /\ now = 1
    /\ last = Call("none", None, None, "ok", 0)
    /\ lastSet = [e \in EdgeIds |-> NoCall]
    /\ tx = [t \in Callers |-> NoTx]
    /\ ui = NoPage
    /\ conns = 0
    /\ ret = NoRet

NextConfirm ==
    \/ PageLoad("none")
    \/ ShowUsers(FALSE)
    \/ ShowEdges
    \/ UsersSelect
    \/ UsersOpenDelete
    \/ \E fault \in UiFaults : UsersDeleteConfirm(fault)
    \/ UsersOpenHardDelete
    \/ \E fault \in UiFaults : UsersHardDeleteConfirm(fault)
    \/ DialogCancel
    \/ EdgesSelect
    \/ EdgesOpenDelete
    \/ \E fault \in UiFaults : EdgesDeleteConfirm(fault)

SpecConfirm == InitConfirm /\ [][NextConfirm]_vars

\* ------------------------------------------------------------------ C20
\* A step of the session with no dialog open (selecting a row, opening a
\* dialog, switching the view) or one that closes a dialog without a
\* notification (Cancel).
NoConfirmStep ==
    \/ ui.dialog = NoDialog
    \/ ui'.dialog = NoDialog /\ ui'.notify = ""

\* C20: hard deletes are always explicitly confirmed. In every sequence of UI
\* events, a call of hard_delete_user or hard_delete_edge is made only by the
\* confirm button of the confirmation dialog that was opened for that row (the
\* hard-delete dialog of that account, the delete dialog of that edge), and an
\* account or edge row disappears only in such a step; selecting a row,
\* opening a dialog or clicking Cancel makes no repository call and changes
\* no table.
C20_HardDeleteConfirmed ==
    [][ /\ ((last' # last /\ last'.op = "hard_delete_user")
              \/ DOMAIN users \ DOMAIN users' # {})
            => /\ ui.dialog.kind = "hard_delete_user"
               /\ ui.dialog.sel = ToString(last'.uid)
               /\ DOMAIN users \ DOMAIN users' \subseteq {last'.uid}
        /\ ((last' # last /\ last'.op = "hard_delete_edge")
              \/ DOMAIN edges \ DOMAIN edges' # {})
            => /\ ui.dialog.kind = "delete_edge"
               /\ ui.dialog.sel = ToString(last'.eid)
               /\ DOMAIN edges \ DOMAIN edges' \subseteq {last'.eid}
        /\ NoConfirmStep
            => /\ last' = last
               /\ users' = users /\ edges' = edges /\ links' = links ]_vars

\* The soft-deleted account 1 has just been hard-deleted through its dialog,
\* which closed, and the Users table no longer shows it.
C20_Witness ==
    /\ last.op = "hard_delete_user" /\ last.uid = 1 /\ last.status = "ok"
    /\ 1 \notin DOMAIN users
    /\ ui.dialog = NoDialog
    /\ ui.notify = "User hard-deleted"
    /\ \A r \in ui.users_rows : r.id # "1"


\* ------------------------------------------------------------------ SpecSetup
\* The process environment of a PostgresConnector: each variable is unset or
\* holds a text.
Unset == "<unset>"
EnvNames == {"DB_HOST", "DB_PORT", "DB_NAME", "DB_USER", "DB_PASSWORD", "DB_SSLMODE"}
Envs ==
    [DB_HOST : {Unset, "db"}, DB_PORT : {Unset, "5433"}, DB_NAME : {Unset},
     DB_USER : {Unset, "admin"}, DB_PASSWORD : {Unset, "", "s3cret", "hunter2"},
     DB_SSLMODE : {Unset, "", "require"}]

\* os.getenv(key, default) and os.getenv(key), whose None prints as "None".
getenv(env, key, default) == IF env[key] = Unset THEN default ELSE env[key]
PrintedEnv(env, key) == getenv(env, key, "None")

\* lines 17-28: the connection string, as the parts joined by " ".
ConnectString(env) ==
    LET parts == << <<"host=", getenv(env, "DB_HOST", "127.0.0.1")>>,
                    <<"port=", getenv(env, "DB_PORT", "5432")>>,
                    <<"dbname=", getenv(env, "DB_NAME", "projectdb")>>,
                    <<"user=", getenv(env, "DB_USER", "postuser")>>,
                    <<"password=", getenv(env, "DB_PASSWORD", "")>> >>
    IN  IF getenv(env, "DB_SSLMODE", "") # ""
        THEN Append(parts, <<"sslmode=", getenv(env, "DB_SSLMODE", "prefer")>>)
        ELSE parts

\* PostgresConnector.__init__: the lines it prints.
PostgresConnector(env) ==
    << <<"===== DEBUG: PostgreSQL Connection Info =====">>,
       <<"DB_HOST      =", PrintedEnv(env, "DB_HOST")>>,
       <<"DB_PORT      =", PrintedEnv(env, "DB_PORT")>>,
       <<"DB_NAME      =", PrintedEnv(env, "DB_NAME")>>,
       <<"DB_USER      =", PrintedEnv(env, "DB_USER")>>,
       <<"DB_PASSWORD  =", PrintedEnv(env, "DB_PASSWORD")>>,
       <<"DB_SSLMODE   =", PrintedEnv(env, "DB_SSLMODE")>>,
       <<"FULL CONNECTION STRING:">>,
       ConnectString(env),
       <<"====================================================">> >>

\* Two processes construct a connector in environments that differ at most
\* in DB_PASSWORD; ret keeps both environments and what each printed.
Construct ==
    /\ \E env \in Envs, other \in Envs :
          /\ \A k \in EnvNames \ {"DB_PASSWORD"} : env[k] = other[k]
          /\ ret' = [op |-> "PostgresConnector", env |-> env, other |-> other,
                     out |-> PostgresConnector(env),
                     other_out |-> PostgresConnector(other)]
    /\ UNCHANGED <<users, edges, links, userSeq, edgeSeq, now, last, lastSet, tx, ui, conns>>

NextSetup == Construct
SpecSetup == Init /\ [][NextSetup]_vars

\* C21: connection setup is never logged verbatim. The output printed while a
\* PostgresConnector is constructed does not depend on the database password:
\* two constructions whose environments differ only in DB_PASSWORD print the
\* same lines.
C21_PasswordNotPrinted ==
    ret.op = "PostgresConnector" => ret.out = ret.other_out


\* ------------------------------------------------------------------ SpecRef
\* set_edge_owner_id runs statement by statement in two callers while other
\* callers hard-delete accounts and edges. The store starts with every account
\* and edge and with edge 1 owned by account 1.
InitRef ==
    /\ userSeq = MaxUsers
    /\ edgeSeq = MaxEdges
    /\ users = [u \in UserIds |-> StoredUser]
    /\ edges = [e \in EdgeIds |-> StoredEdge]
    /\ links = { [rid |-> 1, user_id |-> 1, edge_id |-> 1] }
    /\ now = 1
    /\ last = Call("none", None, None, "ok", 0)
    /\ lastSet = [e \in EdgeIds |-> NoCall]
    /\ tx = [t \in Callers |-> NoTx]
    /\ ui = NoPage
    /\ conns = 0
    /\ ret = NoRet

\* The rows an open transaction has deleted or inserted and not yet committed.
\* A deleted row stays locked, and an inserted row holds a key-share lock
\* on the account and the edge it references, until the transaction ends.
OpenRows == UNION { tx[t].del \cup tx[t].ins : t \in Callers }

\* The DELETE of a parent row and its cascade wait while an open transaction
\* holds a lock on the parent or on one of the link rows to remove.
UserDeleteWaits(u) == \E r \in OpenRows : r.user_id = u
EdgeDeleteWaits(e) == \E r \in OpenRows : r.edge_id = e

\* The accounts that are hard-deleted meanwhile: the owner of edge 1 and
\* another account. The edge is the one the overlapping calls are about.
RefUsers == {1, 2}

\* hard_delete_user and hard_delete_edge by another caller: one DELETE and the
\* commit, once the DELETE does not wait.
RefHardDeleteUser ==
    /\ \E u \in RefUsers :
          /\ ~UserDeleteWaits(u)
          /\ hard_delete_user(u, FALSE)
    /\ UNCHANGED <<lastSet, tx, ui, ret>>
RefHardDeleteEdge ==
    /\ \E e \in ConcEdges :
          /\ ~EdgeDeleteWaits(e)
          /\ hard_delete_edge(e, FALSE)
    /\ UNCHANGED <<lastSet, tx, ui, ret>>

NextRef ==
    \/ \E t \in Callers : TxBegin(t)
    \/ \E t \in Callers : TxDeleteStart(t)
    \/ \E t \in Callers : TxDeleteFinish(t)
    \/ \E t \in Callers : TxInsert(t)
    \/ \E t \in Callers : TxCommit(t)
    \/ \E t \in Callers : TxFail(t)
    \/ RefHardDeleteUser
    \/ RefHardDeleteEdge

SpecRef == InitRef /\ [][NextRef]_vars

\* ------------------------------------------------------------------ C22
\* C22: referential integrity of links. In every reachable state, also when
\* set_edge_owner_id runs concurrently with hard_delete_user or
\* hard_delete_edge, every link row references an account row that exists and
\* an edge row that exists; a set_edge_owner_id that names a nonexistent edge
\* or account never commits a link.
C22_ReferentialIntegrity ==
    \A r \in links : r.user_id \in DOMAIN users /\ r.edge_id \in DOMAIN edges

\* Account 2 has just been hard-deleted while a set_edge_owner_id(1, 2) is
\* open and about to insert its link.
C22_Witness ==
    /\ last = Call("hard_delete_user", 2, None, "ok", 0)
    /\ \E t \in Callers : tx[t].pc = "insert" /\ tx[t].owner_user_id = 2
    /\ 2 \notin DOMAIN users


\* ------------------------------------------------------------------ C23
\* C23: the owner options of the Edges page come from active users. Every
\* option that _load_owner_options builds when the page is loaded is an
\* account whose deleted_at is null at that time, so a soft-deleted account is
\* never offered as an owner in the add or edit dialog.
C23_OwnerOptionsActive ==
    [][ (\E fault \in PageFaults : PageLoad(fault))
          => \A v \in ui'.owner_options :
                users[ParseUserId(v)].deleted_at = NULL ]_vars


\* ------------------------------------------------------------------ SpecSoft
\* Only soft_delete_user is called, with both flags and with store failures,
\* on a store that holds accounts (some soft-deleted), edges and links.
SoftDeleteAny ==
    /\ \E u \in UserIds, d \in BOOLEAN, fault \in BOOLEAN : soft_delete_user(u, d, fault)
    /\ UNCHANGED <<lastSet, tx, ui, ret>>

NextSoft == SoftDeleteAny

SpecSoft == InitUpdate /\ [][NextSoft]_vars

\* ------------------------------------------------------------------ C24
\* C24: soft-deletion does not touch ownership. soft_delete_user(A, d) leaves
\* every link row, every edge row and every other account unchanged, so
\* get_user_device_counts, get_all_edges(owner_id=A), the unfiltered
\* get_all_edges and get_edge_owner_id of every edge return the same before
\* and after, and the devices of a soft-deleted account remain listed.
C24_SoftDeleteKeepsOwnership ==
    [][ last'.op \in {"soft_delete_user", "undelete_user"} =>
          \A A \in UserIds : last'.uid = A =>
              /\ links' = links
              /\ edges' = edges
              /\ DOMAIN users' = DOMAIN users
              /\ \A u \in DOMAIN users \ {A} : users'[u] = users[u]
              /\ get_user_device_counts' = get_user_device_counts
              /\ get_all_edges(A)' = get_all_edges(A)
              /\ get_all_edges(None)' = get_all_edges(None)
              /\ \A e \in EdgeIds : get_edge_owner_id(e)' = get_edge_owner_id(e) ]_vars

\* Account 1, which owns edge 1, has just been soft-deleted: its device is
\* still counted and still listed under it.
C24_Witness ==
    /\ last = Call("soft_delete_user", 1, None, "ok", 0)
    /\ 1 \in DOMAIN users
    /\ users[1].deleted_at # NULL
    /\ get_user_device_counts["1"] = 1
    /\ get_edge_owner_id(1) = {1}
    /\ \A rows \in get_all_edges(1) : Len(rows) = 1 /\ rows[1].id = 1


\* ------------------------------------------------------------------ SpecReassign
\* One caller runs a single set_edge_owner_id(1, B), B not None, statement by
\* statement on edge 1, which account A owns (lastSet[1] = A: the last
\* successful call for the edge gave it to A), while another caller reads.
Writer == 1
InitReassign ==
    /\ userSeq = MaxUsers
    /\ edgeSeq = MaxEdges
    /\ users = [u \in UserIds |-> StoredUser]
    /\ edges = [e \in EdgeIds |-> StoredEdge]
    /\ \E A \in UserIds :
          /\ links = { [rid |-> 1, user_id |-> A, edge_id |-> 1] }
          /\ lastSet = [e \in EdgeIds |-> IF e = 1 THEN A ELSE NoCall]
    /\ now = 1
    /\ last = Call("none", None, None, "ok", 0)
    /\ tx = [t \in Callers |-> NoTx]
    /\ ui = NoPage
    /\ conns = 0
    /\ ret = NoRet

ReassignBegin ==
    /\ tx[Writer].pc = "idle"
    /\ TxBegin(Writer)
    /\ TruthyId(tx'[Writer].owner_user_id)

\* get_edge_owner_id by the other caller: one SELECT, which sees the
\* committed rows.
ReadEdgeOwner ==
    /\ \E e \in ConcEdges : \E owner \in get_edge_owner_id(e) :
            ret' = [op |-> "get_edge_owner_id", edge_id |-> e, owner |-> owner]
    /\ conns' = WithConn(conns, FALSE)
    /\ UNCHANGED <<users, edges, links, userSeq, edgeSeq, now, last, lastSet, tx, ui>>

NextReassign ==
    \/ ReassignBegin
    \/ TxDeleteStart(Writer)
    \/ TxDeleteFinish(Writer)
    \/ TxInsert(Writer)
    \/ TxCommit(Writer)
    \/ TxFail(Writer)
    \/ ReadEdgeOwner
    \/ ReadAllEdges

SpecReassign == InitReassign /\ [][NextReassign]_vars

\* ------------------------------------------------------------------ C25
\* C25: reassignment has no observable unowned intermediate state. While one
\* caller runs set_edge_owner_id(E, B), B not None, on an edge owned by A,
\* every get_edge_owner_id(E) and every get_all_edges() that another caller
\* executes returns owner A or owner B for E, never no owner.
C25_NoUnownedRead ==
    tx[Writer].pc \notin Finished =>
        LET E == tx[Writer].edge_id
            AorB == {lastSet[E], tx[Writer].owner_user_id}
        IN  /\ None \notin AorB
            /\ get_edge_owner_id(E) \subseteq AorB
            /\ \A rows \in get_all_edges(None) : \A i \in 1..Len(rows) :
                    rows[i].id = E => rows[i].owner_user_id \in AorB

\* The call has deleted the link to A and inserted the link to B and has not
\* committed; the other caller's get_edge_owner_id has returned A.
C25_Witness ==
    /\ tx[Writer].pc = "commit"
    /\ tx[Writer].del # {} /\ tx[Writer].ins # {}
    /\ tx[Writer].owner_user_id # lastSet[1]
    /\ ret = [op |-> "get_edge_owner_id", edge_id |-> 1, owner |-> lastSet[1]]


\* ------------------------------------------------------------------ SpecEdgeSave
\* One browser session uses the add and edit dialogs of the Edges page on a
\* store that holds every account, while another session hard-deletes
\* accounts: the owner options of the page are those loaded when it was built.
\* The texts typed into the serial number and type inputs: nothing, or a text
\* to strip.
SaveSerials == { <<>>, <<"a">>, <<" ", "b">> }
SaveTypes == { <<"t", " ">> }
\* Where the store fails during a save: nowhere, or in set_edge_owner_id at the
\* commit (apart from the INSERT being rejected).
SaveFaults == {"none", "commit"}

NextEdgeSave ==
    \/ PageLoad("none")
    \/ ShowEdges
    \/ EdgesSelect
    \/ EdgesOpenAdd
    \/ \E serial \in SaveSerials, typ \in SaveTypes, owner \in OwnerValues, fault \in SaveFaults :
         EdgesAddSave(serial, typ, owner, fault)
    \/ EdgesOpenEdit(FALSE)
    \/ \E serial \in SaveSerials, typ \in SaveTypes, owner \in OwnerValues, fault \in SaveFaults :
         EdgesEditSave(serial, typ, owner, fault)
    \/ DialogCancel
    \/ RefHardDeleteUser

InitEdgeSave ==
    /\ userSeq = MaxUsers
    /\ edgeSeq = 0
    /\ users = [u \in UserIds |-> StoredUser]
    /\ edges = <<>>
    /\ links = {}
    /\ now = 1
    /\ last = Call("none", None, None, "ok", 0)
    /\ lastSet = [e \in EdgeIds |-> NoCall]
    /\ tx = [t \in Callers |-> NoTx]
    /\ ui = NoPage
    /\ conns = 0
    /\ ret = NoRet

SpecEdgeSave == InitEdgeSave /\ [][NextEdgeSave]_vars

\* ------------------------------------------------------------------ C26
\* The page after a save whose set_edge_owner_id failed: a 'DB error'
\* notification, the dialog still open, the table not refreshed.
SaveFailedPage ==
    /\ ui'.notify = "DB error" /\ ui'.error = "caught"
    /\ ui'.dialog = ui.dialog /\ ui.dialog # NoDialog
    /\ ui'.edges_rows = ui.edges_rows

\* C26: the save handlers of the Edges page are two transactions, not one.
\* In the add dialog create_edge commits before set_edge_owner_id runs, and in
\* the edit dialog update_edge commits before it; when set_edge_owner_id then
\* fails (for example because the chosen owner, taken from the options loaded
\* when the page was built, has since been hard-deleted), the created edge or
\* the changed serial number and type stay committed with the prior owner
\* (none for a new edge), a 'DB error' notification is shown and the dialog
\* stays open.
C26_SaveIsTwoTransactions ==
    [][ (last'.op = "set_edge_owner_id" /\ last'.status # "ok") =>
          /\ (ui.dialog.kind = "add_edge" /\ last'.eid = edgeSeq + 1) =>
                /\ edgeSeq' = edgeSeq + 1
                /\ DOMAIN edges' = DOMAIN edges \cup {edgeSeq'}
                /\ \A e \in DOMAIN edges : edges'[e] = edges[e]
                /\ links' = links
                /\ LinksOfEdge(links', edgeSeq') = {}
                /\ SaveFailedPage
          /\ ui.dialog.kind = "edit_edge" =>
                \A serial \in SaveSerials, typ \in SaveTypes :
                    (/\ Truthy(serial) /\ Truthy(typ)
                     /\ \E owner \in OwnerValues, fault \in SaveFaults :
                            EdgesEditSave(serial, typ, owner, fault)) =>
                        /\ DOMAIN edges' = DOMAIN edges
                        /\ \A e \in DOMAIN edges :
                              edges'[e] = IF ToString(e) = ui.dialog.sel
                                          THEN [serial_number |-> strip(serial),
                                                type |-> strip(typ)]
                                          ELSE edges[e]
                        /\ links' = links
                        /\ SaveFailedPage ]_vars

\* The add dialog's save has created edge 1 and then failed to give it to
\* account 1, an option of the page that was hard-deleted meanwhile: the edge
\* exists without owner, the error is shown and the dialog is still open.
C26_Witness ==
    /\ last = Call("set_edge_owner_id", 1, 1, "ForeignKeyViolation", 0)
    /\ 1 \notin DOMAIN users
    /\ "1" \in ui.owner_options
    /\ 1 \in DOMAIN edges
    /\ links = {}
    /\ ui.dialog.kind = "add_edge"
    /\ ui.notify = "DB error"


\* ------------------------------------------------------------------ C27
\* C27: set_edge_owner_id(E, x) changes only the links of E. For every edge F
\* other than E the link rows of F are the same before and after, and no
\* account row or edge row is created, modified or removed, whether the call
\* succeeds or fails.
C27_SetOwnerFrame ==
    [][ last'.op = "set_edge_owner_id" =>
          /\ \A F \in EdgeIds \ {last'.eid} : LinksOfEdge(links', F) = LinksOfEdge(links, F)
          /\ users' = users
          /\ edges' = edges
          /\ userSeq' = userSeq /\ edgeSeq' = edgeSeq ]_vars

\* The owner of edge 1 has just been cleared while edge 2 keeps its owner.
C27_Witness ==
    /\ last = Call("set_edge_owner_id", None, 1, "ok", 1)
    /\ LinksOfEdge(links, 1) = {}
    /\ LinksOfEdge(links, 2) # {}


\* ------------------------------------------------------------------ SpecTwoAdmins
\* Two admin sessions: one uses the delete dialogs of its Users page, the
\* other soft-deletes and undeletes accounts meanwhile (its calls of
\* soft_delete_user reach the store between the first session's events).
NextTwoAdmins ==
    \/ NextConfirm
    \/ SoftDeleteUser

SpecTwoAdmins == InitConfirm /\ [][NextTwoAdmins]_vars

\* C28: through the Users page an account is hard-deleted only while it is
\* soft-deleted. Whenever the confirm button of the hard-delete dialog calls
\* hard_delete_user(A), the stored deleted_at of A is not null at that moment,
\* also when another session undeletes A after the dialog was opened.
C28_HardDeleteOnlySoftDeleted ==
    [][ (\E fault \in UiFaults : UsersHardDeleteConfirm(fault)) =>
          LET A == ParseUserId(ui.dialog.sel)
          IN  A \in DOMAIN users => users[A].deleted_at # NULL ]_vars

====
